---- MODULE Spec2Model ----
(***************************************************************************)
(* The SQL JSON functions of core/json/mod.rs: get_json, json_array,       *)
(* json_array_length and json_extract, with the path evaluator             *)
(* json_extract_single and the bridge get_json_value.                      *)
(*                                                                         *)
(* Every function is pure and runs inside one call, so each is an operator *)
(* and the state machine is the host engine calling one function at a time *)
(* (pc = "idle" -> "done") and dropping the result again.                  *)
(*                                                                         *)
(* Text is modelled in two shapes.  A JSON document is a TLA+ string, and  *)
(* the codec (de.rs / ser.rs, not part of mod.rs) is to_string, computed   *)
(* recursively over Val, and from_str, which accepts exactly the canonical *)
(* encodings of Docs plus the JSON5 spellings of Json5Forms.  A path       *)
(* string is the sequence of its lexical tokens ("$[-1]" is                *)
(* <<"$", "[", "-1", "]">>), and the parser json_path (json_path.rs, not   *)
(* part of mod.rs) is a recursive descent over the tokens.                 *)
(*                                                                         *)
(* A Float is named by its shortest decimal spelling ("1.5"), with "inf",  *)
(* "-inf" and "NaN" for the non-finite values.                             *)
(***************************************************************************)
EXTENDS Integers, Sequences, FiniteSets, TLC

VARIABLES pc, fn, args, ret

vars == <<pc, fn, args, ret>>

(***************************************************************************)
(* Bounds                                                                  *)
(***************************************************************************)
\* array locators of the generated paths range over -MaxIdx..MaxIdx
MaxIdx == 4
\* steps after the root in a generated path
MaxSteps == 2
\* length of the path list handed to json_extract
MaxPaths == 2
\* array locators of the paths used in path lists of more than one element
MaxListIdx == 1
\* number of arguments handed to json_array
MaxArgs == 2

(***************************************************************************)
(* Val (mod.rs 15-25)                                                      *)
(***************************************************************************)
ValNull == [k |-> "Null"]

ValBool(b) == [k |-> "Bool", b |-> b]

ValInteger(i) == [k |-> "Integer", i |-> i]

ValFloat(f) == [k |-> "Float", f |-> f]

ValString(s) == [k |-> "String", s |-> s]

ValArray(a) == [k |-> "Array", items |-> a]

\* an IndexMap: the members in insertion order, keys unique
ValObject(m) == [k |-> "Object", members |-> m]

Member(key, val) == [key |-> key, val |-> val]

\* IndexMap::get
MapHas(map, key) == \E n \in 1..Len(map) : map[n].key = key

MapGet(map, key) == map[CHOOSE n \in 1..Len(map) : map[n].key = key].val

(***************************************************************************)
(* OwnedValue, Text, TextSubtype (crate::types, as used by mod.rs)         *)
(***************************************************************************)
OwnedNull == [type |-> "Null"]

OwnedInteger(i) == [type |-> "Integer", i |-> i]

OwnedFloat(f) == [type |-> "Float", f |-> f]

OwnedText(value, subtype) == [type |-> "Text", value |-> value, subtype |-> subtype]

OwnedBlob(b) == [type |-> "Blob", b |-> b]

\* Text::json
TextJson(value) == OwnedText(value, "Json")

\* OwnedValue::build_text: a Text without the Json subtype
BuildText(value) == OwnedText(value, "Text")

\* an absent optional argument (Option::None)
NoneArg == [type |-> "None"]

(***************************************************************************)
(* crate::Result: Ok, the two error kinds, and a panic of the call         *)
(***************************************************************************)
Ok(v) == [ok |-> TRUE, val |-> v]

ParseError(msg) == [ok |-> FALSE, err |-> "ParseError", msg |-> msg]

ConstraintError(msg) == [ok |-> FALSE, err |-> "ConstraintError", msg |-> msg]

Panic(msg) == [ok |-> FALSE, err |-> "Panic", msg |-> msg]

IsOk(r) == r.ok

IsParseError(r) == ~r.ok /\ r.err = "ParseError"

IsConstraintError(r) == ~r.ok /\ r.err = "ConstraintError"

IsPanic(r) == ~r.ok /\ r.err = "Panic"

(***************************************************************************)
(* The text codec                                                          *)
(***************************************************************************)
\* the escaping of a string's content inside a JSON string literal: a double
\* quote becomes backslash + double quote; the other texts of the model hold
\* no character that needs escaping
EscapeString(s) ==
    CASE s = "\"value2\"" -> "\\\"value2\\\""
      [] s = "{\"a\":2}" -> "{\\\"a\\\":2}"
      [] OTHER -> s

\* the number formatting of a Float: JSON has no spelling for the non-finite
FloatText(f) ==
    CASE f = "inf" -> "9e999"
      [] f = "-inf" -> "-9e999"
      [] f = "NaN" -> "null"
      [] OTHER -> f

RECURSIVE to_string(_)
RECURSIVE JoinItems(_, _)
RECURSIVE JoinMembers(_, _)
\* crate::json::to_string: the canonical encoding
to_string(v) ==
    CASE v.k = "Null" -> "null"
      [] v.k = "Bool" -> (IF v.b THEN "true" ELSE "false")
      [] v.k = "Integer" -> ToString(v.i)
      [] v.k = "Float" -> FloatText(v.f)
      [] v.k = "String" -> "\"" \o EscapeString(v.s) \o "\""
      [] v.k = "Array" -> "[" \o JoinItems(v.items, 1) \o "]"
      [] v.k = "Object" -> "{" \o JoinMembers(v.members, 1) \o "}"

JoinItems(a, n) ==
    IF n > Len(a) THEN ""
    ELSE to_string(a[n]) \o (IF n < Len(a) THEN "," ELSE "") \o JoinItems(a, n + 1)

JoinMembers(m, n) ==
    IF n > Len(m) THEN ""
    ELSE "\"" \o EscapeString(m[n].key) \o "\":" \o to_string(m[n].val)
         \o (IF n < Len(m) THEN "," ELSE "") \o JoinMembers(m, n + 1)

\* the documents of the model
Docs ==
    << ValNull,
       ValBool(TRUE),
       ValInteger(1),
       ValFloat("1.5"),
       ValString("value"),
       ValArray(<<>>),
       ValArray(<<ValInteger(1), ValInteger(2), ValInteger(3)>>),
       ValArray(<<ValArray(<<ValInteger(1), ValInteger(2), ValInteger(3)>>)>>),
       ValObject(<<Member("a", ValInteger(2))>>),
       ValObject(<<Member("one", ValArray(<<ValInteger(1), ValInteger(2), ValInteger(3)>>))>>),
       ValObject(<<Member("a", ValNull),
                   Member("one", ValArray(<<ValInteger(1),
                                            ValArray(<<ValInteger(2), ValInteger(3)>>)>>))>>),
       ValArray(<<ValObject(<<Member("a", ValArray(<<ValInteger(1), ValInteger(2)>>))>>),
                  ValNull>>),
       ValObject(<<Member("key", ValFloat("inf"))>>),
       ValObject(<<Member("key", ValString("value"))>>) >>

\* JSON5 spellings the decoder accepts besides the canonical ones
Json5Forms ==
    << [text |-> "{ key: 'value' }", val |-> ValObject(<<Member("key", ValString("value"))>>)],
       [text |-> "{one: [1,2,3]}",
        val |-> ValObject(<<Member("one", ValArray(<<ValInteger(1), ValInteger(2), ValInteger(3)>>))>>)],
       [text |-> "{ \"key\": Infinity }", val |-> ValObject(<<Member("key", ValFloat("inf"))>>)],
       [text |-> "{ \"key\": NaN }", val |-> ValObject(<<Member("key", ValFloat("NaN"))>>)] >>

\* texts that are not JSON under the relaxed grammar
MalformedTexts == {"{ key: value }", "{key:\"value\"", "value1", ""}

CanonTexts == [d \in 1..Len(Docs) |-> to_string(Docs[d])]

\* crate::json::from_str::<Val>
from_str(text) ==
    IF \E d \in 1..Len(Docs) : CanonTexts[d] = text
    THEN Ok(Docs[CHOOSE d \in 1..Len(Docs) : CanonTexts[d] = text])
    ELSE IF \E j \in 1..Len(Json5Forms) : Json5Forms[j].text = text
    THEN Ok(Json5Forms[CHOOSE j \in 1..Len(Json5Forms) : Json5Forms[j].text = text].val)
    ELSE ParseError("malformed JSON")

(***************************************************************************)
(* The path parser                                                         *)
(***************************************************************************)
Root == [e |-> "Root"]

Key(key) == [e |-> "Key", key |-> key]

ArrayLocator(idx) == [e |-> "ArrayLocator", idx |-> idx]

\* the object keys a path of the model may name ("x" is in no document)
Identifiers == {"a", "one", "x"}

\* the integers the lexer knows the spelling of
IntTokens == (0 - MaxIdx - 1)..(MaxIdx + 1)

IsIntToken(t) == \E i \in IntTokens : ToString(i) = t

IntOf(t) == CHOOSE i \in IntTokens : ToString(i) = t

PathError == ParseError("JSON path error near")

RECURSIVE ParseSteps(_, _, _)
\* zero or more steps after the root, each `.identifier` or `[integer]`
ParseSteps(tokens, n, acc) ==
    IF n > Len(tokens) THEN Ok([elements |-> acc])
    ELSE IF tokens[n] = "." /\ n + 1 <= Len(tokens) /\ tokens[n + 1] \in Identifiers
    THEN ParseSteps(tokens, n + 2, Append(acc, Key(tokens[n + 1])))
    ELSE IF /\ tokens[n] = "["
            /\ n + 2 <= Len(tokens)
            /\ IsIntToken(tokens[n + 1])
            /\ tokens[n + 2] = "]"
    THEN ParseSteps(tokens, n + 3, Append(acc, ArrayLocator(IntOf(tokens[n + 1]))))
    ELSE PathError

\* crate::json::json_path::json_path: a path must begin with `$`
json_path(path) ==
    IF Len(path) >= 1 /\ path[1] = "$"
    THEN ParseSteps(path, 2, <<Root>>)
    ELSE PathError

\* the spelling of a path: its tokens
StepText(el) ==
    IF el.e = "Key" THEN <<".", el.key>> ELSE <<"[", ToString(el.idx), "]">>

RECURSIVE PathText(_)
PathText(steps) ==
    IF steps = <<>> THEN <<"$">>
    ELSE PathText(SubSeq(steps, 1, Len(steps) - 1)) \o StepText(steps[Len(steps)])

(***************************************************************************)
(* The external binary codec jsonb::from_slice, as mod.rs consumes it:     *)
(* bytes decode to a value with a canonical text, or fail                  *)
(***************************************************************************)
Blobs == {"jsonb_valid", "jsonb_invalid"}

jsonb_from_slice(b) ==
    IF b = "jsonb_valid" THEN Ok("{\"asd\":\"adf\"}") ELSE ParseError("invalid jsonb")

(***************************************************************************)
(* get_json_value (mod.rs 60-80)                                           *)
(***************************************************************************)
\* get_json_value with a failed decode coerced to Val::Null instead of raised
get_json_value_lenient(json_value) ==
    CASE json_value.type = "Text" ->
            (LET r == from_str(json_value.value)
             IN  IF IsOk(r) THEN Ok(r.val) ELSE Ok(ValNull))
      [] json_value.type = "Blob" ->
            (IF IsOk(jsonb_from_slice(json_value.b))
             THEN Panic("not yet implemented: jsonb to json conversion")
             ELSE ParseError("malformed JSON"))
      [] json_value.type = "Null" -> Ok(ValNull)
      [] json_value.type = "Float" -> Ok(ValFloat(json_value.f))
      [] json_value.type = "Integer" -> Ok(ValInteger(json_value.i))

\* OwnedValue variants other than Null, Integer, Float, Text and Blob (the `_`
\* arm, stringified into Val::String) are not among the model's values
get_json_value(json_value) ==
    CASE json_value.type = "Text" ->
            (LET r == from_str(json_value.value)
             IN  IF IsOk(r) THEN Ok(r.val) ELSE ParseError("malformed JSON"))
      [] json_value.type = "Blob" ->
            (IF IsOk(jsonb_from_slice(json_value.b))
             THEN Panic("not yet implemented: jsonb to json conversion")
             ELSE ParseError("malformed JSON"))
      [] json_value.type = "Null" -> Ok(ValNull)
      [] json_value.type = "Float" -> Ok(ValFloat(json_value.f))
      [] json_value.type = "Integer" -> Ok(ValInteger(json_value.i))

(***************************************************************************)
(* get_json (mod.rs 27-58)                                                 *)
(***************************************************************************)
\* get_json_reencode building its result with Text::new instead of Text::json
get_json_reencode_untagged(json_value) ==
    LET json_val == get_json_value(json_value)
    IN  IF ~IsOk(json_val) THEN json_val
        ELSE Ok(BuildText(to_string(json_val.val)))

\* decode, re-encode, tag (mod.rs 36-39 and 52-55)
get_json_reencode(json_value) ==
    LET json_val == get_json_value(json_value)
    IN  IF ~IsOk(json_val) THEN json_val
        ELSE Ok(TextJson(to_string(json_val.val)))

\* get_json_text without the subtype check: tagged text is decoded again
get_json_text_revalidate(json_value) == get_json_reencode(json_value)

\* the Text arm (mod.rs 29-40)
get_json_text(json_value) ==
    IF json_value.subtype = "Json" THEN Ok(json_value)
    ELSE get_json_reencode(json_value)

\* the Blob arm (mod.rs 41-49)
get_json_blob(json_value) ==
    LET json == jsonb_from_slice(json_value.b)
    IN  IF IsOk(json) THEN Ok(TextJson(json.val))
        ELSE ParseError("malformed JSON")

get_json(json_value) ==
    CASE json_value.type = "Text" -> get_json_text(json_value)
      [] json_value.type = "Blob" -> get_json_blob(json_value)
      [] json_value.type = "Null" -> Ok(OwnedNull)
      [] OTHER -> get_json_reencode(json_value)

(***************************************************************************)
(* json_array (mod.rs 82-118)                                              *)
(***************************************************************************)
\* the match on one argument (mod.rs 87-109): what is pushed onto s, or the error
json_array_item(value) ==
    CASE value.type = "Blob" -> ConstraintError("JSON cannot hold BLOB values")
      [] value.type = "Text" ->
            (IF value.subtype = "Json" THEN Ok(value.value)
             ELSE Ok(to_string(ValString(value.value))))
      [] value.type = "Integer" -> Ok(to_string(ValInteger(value.i)))
      [] value.type = "Float" -> Ok(to_string(ValFloat(value.f)))
      [] value.type = "Null" -> Ok("null")

\* json_array_comma with the bound off by one: a comma after the last argument
json_array_comma_trailing(idx, len) == IF idx < len THEN "," ELSE ""

\* the separator pushed after the argument at 0-based position idx (mod.rs 111-113)
json_array_comma(idx, len) == IF idx < len - 1 THEN "," ELSE ""

RECURSIVE json_array_loop(_, _, _)
\* the for loop (mod.rs 86-114), n the 1-based position, s the string so far
json_array_loop(values, n, s) ==
    IF n > Len(values) THEN Ok(s)
    ELSE LET item == json_array_item(values[n])
         IN  IF ~IsOk(item) THEN item
             ELSE json_array_loop(values, n + 1,
                                  s \o item.val \o json_array_comma(n - 1, Len(values)))

json_array(values) ==
    LET s == json_array_loop(values, 1, "[")
    IN  IF ~IsOk(s) THEN s
        ELSE Ok(TextJson(s.val \o "]"))

(***************************************************************************)
(* json_extract_single (mod.rs 189-236)                                    *)
(***************************************************************************)
\* the ArrayLocator arm on an array (mod.rs 216-228).  idx is an i32 and the
\* sum of a negative idx and a length cannot overflow.  `idx as usize` of an
\* idx that is still negative is at least 2^63, beyond the length of any Vec,
\* so the indexing panics.  The result is [stop, at]: the call's result, or
\* the element to go on with.
array_locate(array, idx0) ==
    LET len == Len(array)
        idx == IF idx0 < 0 THEN idx0 + len ELSE idx0
    IN  IF idx < len
        THEN IF idx < 0
             THEN [stop |-> TRUE, res |-> Panic("index out of bounds")]
             ELSE [stop |-> FALSE, at |-> array[idx + 1]]
        ELSE [stop |-> TRUE, res |-> Ok(ValNull)]

\* the Key arm (mod.rs 199-214)
key_locate(current_element, key) ==
    IF current_element.k = "Object" /\ MapHas(current_element.members, key)
    THEN [stop |-> FALSE, at |-> MapGet(current_element.members, key)]
    ELSE [stop |-> TRUE, res |-> Ok(ValNull)]

\* one element of the path applied to the current element (mod.rs 195-233)
path_step(json, current_element, element) ==
    CASE element.e = "Root" -> [stop |-> FALSE, at |-> json]
      [] element.e = "Key" -> key_locate(current_element, element.key)
      [] element.e = "ArrayLocator" ->
            (IF current_element.k = "Array"
             THEN array_locate(current_element.items, element.idx)
             ELSE [stop |-> TRUE, res |-> Ok(ValNull)])

RECURSIVE path_walk(_, _, _, _)
\* the for loop over the elements (mod.rs 194-235)
path_walk(json, elements, n, current_element) ==
    IF n > Len(elements) THEN Ok(current_element)
    ELSE LET step == path_step(json, current_element, elements[n])
         IN  IF step.stop THEN step.res
             ELSE path_walk(json, elements, n + 1, step.at)

json_extract_single(json, path) ==
    LET parsed == json_path(path)
    IN  IF ~IsOk(parsed) THEN parsed
        ELSE path_walk(json, parsed.val.elements, 1, ValNull)

(***************************************************************************)
(* json_array_length (mod.rs 120-144)                                      *)
(***************************************************************************)
\* the path argument as a string (mod.rs 124-129); the decimal spelling of a
\* number is one token that is not `$`
json_array_length_path(json_path_arg) ==
    CASE json_path_arg.type = "Text" -> Ok(json_path_arg.value)
      [] json_path_arg.type = "Integer" -> Ok(<<ToString(json_path_arg.i)>>)
      [] json_path_arg.type = "Float" -> Ok(<<json_path_arg.f>>)
      [] OTHER -> [ok |-> FALSE]

\* the final match (mod.rs 139-143)
json_array_length_of(arr_val) ==
    CASE arr_val.k = "Array" -> Ok(OwnedInteger(Len(arr_val.items)))
      [] arr_val.k = "Null" -> Ok(OwnedNull)
      [] OTHER -> Ok(OwnedInteger(0))

json_array_length(json_value, json_path_arg) ==
    LET path == json_array_length_path(json_path_arg)
        json == get_json_value(json_value)
    IN  IF ~IsOk(json) THEN json
        ELSE IF path.ok
        THEN LET arr_val == json_extract_single(json.val, path.val)
             IN  IF ~IsOk(arr_val) THEN arr_val
                 ELSE json_array_length_of(arr_val.val)
        ELSE json_array_length_of(json.val)

(***************************************************************************)
(* json_extract (mod.rs 146-187)                                           *)
(***************************************************************************)
RECURSIVE Concat(_)
\* the String built from the fragments pushed onto it
Concat(frags) == IF frags = <<>> THEN "" ELSE Head(frags) \o Concat(Tail(frags))

\* one Text path inside the loop (mod.rs 164-175): [stop, res] when the call
\* returns, else the result string after the pushes
json_extract_text(json, p, len, result) ==
    LET extracted == json_extract_single(json, p.value)
    IN  IF ~IsOk(extracted) THEN [stop |-> TRUE, res |-> extracted]
        ELSE IF len = 1 /\ extracted.val = ValNull
        THEN [stop |-> TRUE, res |-> Ok(OwnedNull)]
        ELSE [stop |-> FALSE,
              result |-> (result \o <<to_string(extracted.val)>>)
                         \o (IF len > 1 THEN <<",">> ELSE <<>>)]

\* json_extract_path with a Null path skipped instead of ending the call
json_extract_path_skip_null(json, path, len, result) ==
    CASE path.type = "Text" -> json_extract_text(json, path, len, result)
      [] path.type = "Null" -> [stop |-> FALSE, result |-> result]
      [] OTHER -> [stop |-> TRUE, res |-> ConstraintError("JSON path error near")]

\* the match on one path argument (mod.rs 163-178)
json_extract_path(json, path, len, result) ==
    CASE path.type = "Text" -> json_extract_text(json, path, len, result)
      [] path.type = "Null" -> [stop |-> TRUE, res |-> Ok(OwnedNull)]
      [] OTHER -> [stop |-> TRUE, res |-> ConstraintError("JSON path error near")]

RECURSIVE json_extract_loop(_, _, _, _)
\* the for loop (mod.rs 162-179); result is the String as the fragments pushed.
\* [stop, res] when an iteration returned, else the String after the loop
json_extract_loop(json, paths, n, result) ==
    IF n > Len(paths) THEN [stop |-> FALSE, result |-> result]
    ELSE LET step == json_extract_path(json, paths[n], Len(paths), result)
         IN  IF step.stop THEN step
             ELSE json_extract_loop(json, paths, n + 1, step.result)

\* closing a list of more than one path (mod.rs 181-184): pop() takes the last
\* character, which is the comma the last iteration pushed
json_extract_close(result, len) ==
    IF len > 1 THEN SubSeq(result, 1, Len(result) - 1) \o <<"]">> ELSE result

json_extract(value, paths) ==
    IF value.type = "Null" THEN Ok(OwnedNull)
    ELSE IF paths = <<>> THEN Ok(OwnedNull)
    ELSE LET json == get_json_value(value)
         IN  IF ~IsOk(json) THEN json
             ELSE LET loop == json_extract_loop(json.val, paths, 1,
                                  IF Len(paths) > 1 THEN <<"[">> ELSE <<>>)
                  IN  IF loop.stop THEN loop.res
                      ELSE Ok(TextJson(Concat(json_extract_close(loop.result, Len(paths)))))

(***************************************************************************)
(* The arguments the host engine calls the functions with                  *)
(***************************************************************************)
CanonDocTexts == {CanonTexts[d] : d \in 1..Len(Docs)}

Json5Texts == {Json5Forms[j].text : j \in 1..Len(Json5Forms)}

\* subjects: untagged text (canonical, JSON5, malformed), text tagged Json
\* (canonical, and malformed, which only a caller breaking the tag's promise
\* can build), and the non-text values
Subjects ==
    {BuildText(t) : t \in CanonDocTexts \cup Json5Texts \cup MalformedTexts}
    \cup {TextJson(t) : t \in CanonDocTexts \cup MalformedTexts}
    \cup {OwnedNull, OwnedInteger(7), OwnedFloat("1.5"), OwnedFloat("NaN")}
    \cup {OwnedBlob(b) : b \in Blobs}

PathSteps(maxIdx) ==
    {Key(key) : key \in Identifiers} \cup {ArrayLocator(i) : i \in (0 - maxIdx)..maxIdx}

\* the spellings of the paths of at most maxSteps steps
PathTexts(maxSteps, maxIdx) ==
    {PathText(steps) : steps \in UNION {[1..m -> PathSteps(maxIdx)] : m \in 0..maxSteps}}

\* path strings outside the grammar: empty, no root, a step cut short
MalformedPaths == {<<>>, <<".", "a">>, <<"$", ".">>, <<"$", "[", "0">>}

\* a single path argument
PathArgs ==
    {BuildText(p) : p \in PathTexts(MaxSteps, MaxIdx) \cup MalformedPaths}
    \cup {OwnedNull, OwnedInteger(0), OwnedFloat("1.5"), OwnedBlob("jsonb_valid")}

\* the elements of a longer path list
ListPathArgs ==
    {BuildText(p) : p \in PathTexts(1, MaxListIdx) \cup {<<"$", ".">>}}
    \cup {OwnedNull, OwnedFloat("1.5")}

PathLists ==
    UNION {[1..m -> ListPathArgs] : m \in 0..MaxPaths} \cup {<<p>> : p \in PathArgs}

\* the arguments of json_array
ArrayArgs ==
    {BuildText("value1"), BuildText("\"value2\""), BuildText("{\"a\":2}"),
     TextJson("\"value2\""), TextJson("[1,2]"),
     OwnedInteger(1), OwnedFloat("1.1"), OwnedFloat("NaN"), OwnedNull,
     OwnedBlob("jsonb_valid")}

ArrayArgLists == UNION {[1..m -> ArrayArgs] : m \in 0..MaxArgs}

NoResult == [ok |-> FALSE, err |-> "none", msg |-> ""]

(***************************************************************************)
(* The state machine: one call at a time                                   *)
(***************************************************************************)
Init ==
    /\ pc = "idle"
    /\ fn = "none"
    /\ args = <<>>
    /\ ret = NoResult

CallGetJson ==
    /\ pc = "idle"
    /\ \E json_value \in Subjects :
          /\ args' = <<json_value>>
          /\ ret' = get_json(json_value)
    /\ fn' = "get_json"
    /\ pc' = "done"

CallJsonArray ==
    /\ pc = "idle"
    /\ \E values \in ArrayArgLists :
          /\ args' = <<values>>
          /\ ret' = json_array(values)
    /\ fn' = "json_array"
    /\ pc' = "done"

CallJsonArrayLength ==
    /\ pc = "idle"
    /\ \E json_value \in Subjects, json_path_arg \in PathArgs \cup {NoneArg} :
          /\ args' = <<json_value, json_path_arg>>
          /\ ret' = json_array_length(json_value, json_path_arg)
    /\ fn' = "json_array_length"
    /\ pc' = "done"

CallJsonExtract ==
    /\ pc = "idle"
    /\ \E value \in Subjects, paths \in PathLists :
          /\ args' = <<value, paths>>
          /\ ret' = json_extract(value, paths)
    /\ fn' = "json_extract"
    /\ pc' = "done"

\* the call returns; nothing of it outlives it
Return ==
    /\ pc = "done"
    /\ pc' = "idle"
    /\ fn' = "none"
    /\ args' = <<>>
    /\ ret' = NoResult

Next ==
    \/ CallGetJson
    \/ CallJsonArray
    \/ CallJsonArrayLength
    \/ CallJsonExtract
    \/ Return

Spec == Init /\ [][Next]_vars

(***************************************************************************)
(* What the specification says of a call, stated apart from the code       *)
(***************************************************************************)
Done(f) == pc = "done" /\ fn = f

\* a Text whose content is, or is not, JSON under the relaxed grammar
Decodes(v) == v.type = "Text" /\ IsOk(from_str(v.value))

Undecodable(v) == v.type = "Text" /\ ~IsOk(from_str(v.value))

\* a subject the bridge turns into a Val: decodable text, or a number
DecodableSubject(v) == Decodes(v) \/ v.type \in {"Integer", "Float"}

\* the bridge table: the Val of a subject
DocOf(v) ==
    CASE v.type = "Text" -> from_str(v.value).val
      [] v.type = "Integer" -> ValInteger(v.i)
      [] v.type = "Float" -> ValFloat(v.f)
      [] v.type = "Null" -> ValNull

\* a Text that parses as a path, and one that does not
IsPathText(p) == p.type = "Text" /\ IsOk(json_path(p.value))

IsMalformedPath(p) == p.type = "Text" /\ ~IsOk(json_path(p.value))

\* the steps after the root
StepsOf(p) == Tail(json_path(p.value).val.elements)

RECURSIVE Evaluate(_, _)
\* evaluate(Value, Path): a Key needs an Object holding it, an ArrayLocator
\* an Array and, after adding the length to a negative index once, an index
\* in [0, len); anything else makes the result Null
Evaluate(v, steps) ==
    IF steps = <<>> THEN v
    ELSE LET el == Head(steps)
         IN  IF el.e = "Key"
             THEN IF v.k = "Object" /\ MapHas(v.members, el.key)
                  THEN Evaluate(MapGet(v.members, el.key), Tail(steps))
                  ELSE ValNull
             ELSE IF v.k = "Array"
                  THEN LET i == IF el.idx < 0 THEN el.idx + Len(v.items) ELSE el.idx
                       IN  IF 0 <= i /\ i < Len(v.items)
                           THEN Evaluate(v.items[i + 1], Tail(steps))
                           ELSE ValNull
                  ELSE ValNull

RECURSIVE Overruns(_, _)
\* the walk meets an ArrayLocator below minus the length of the array it is
\* applied to
Overruns(v, steps) ==
    IF steps = <<>> THEN FALSE
    ELSE LET el == Head(steps)
         IN  IF el.e = "Key"
             THEN /\ v.k = "Object"
                  /\ MapHas(v.members, el.key)
                  /\ Overruns(MapGet(v.members, el.key), Tail(steps))
             ELSE /\ v.k = "Array"
                  /\ LET i == IF el.idx < 0 THEN el.idx + Len(v.items) ELSE el.idx
                     IN  \/ i < 0
                         \/ /\ i < Len(v.items)
                            /\ Overruns(v.items[i + 1], Tail(steps))

\* the result of extracting one value: native Null for Null, else its encoding
ExtractOne(v) == IF v = ValNull THEN Ok(OwnedNull) ELSE Ok(TextJson(to_string(v)))

\* the array length of a selected value
Classify(v) ==
    CASE v.k = "Array" -> Ok(OwnedInteger(Len(v.items)))
      [] v.k = "Null" -> Ok(OwnedNull)
      [] OTHER -> Ok(OwnedInteger(0))

RECURSIVE JoinTexts(_)
\* texts joined by single commas
JoinTexts(texts) ==
    IF texts = <<>> THEN ""
    ELSE IF Len(texts) = 1 THEN texts[1]
    ELSE texts[1] \o "," \o JoinTexts(Tail(texts))

(***************************************************************************)
(* C1                                                                      *)
(***************************************************************************)
\* C1: get_json of a Text tagged Json returns a value equal to its argument,
\* same text and same tag, whatever the text is; it never fails
C1_FastPathIdentity ==
    (Done("get_json") /\ args[1].type = "Text" /\ args[1].subtype = "Json")
        => ret = Ok(args[1])

\* get_json has returned a tagged text that is not JSON, unchanged
C1_Witness ==
    /\ Done("get_json")
    /\ Undecodable(args[1])
    /\ args[1].subtype = "Json"
    /\ IsOk(ret)

(***************************************************************************)
(* C5                                                                      *)
(***************************************************************************)
\* C5: a successful result of get_json, json_array or json_extract is a Text
\* tagged Json or native Null, and of json_array always a Text tagged Json
C5_ResultsTaggedJson ==
    ((Done("get_json") \/ Done("json_array") \/ Done("json_extract")) /\ IsOk(ret))
        => /\ \/ ret.val = OwnedNull
              \/ ret.val.type = "Text" /\ ret.val.subtype = "Json"
           /\ fn = "json_array" => ret.val.type = "Text"

\* get_json has re-encoded an untagged text and returned it tagged
C5_Witness ==
    /\ Done("get_json")
    /\ args[1].type = "Text"
    /\ args[1].subtype = "Text"
    /\ IsOk(ret)
    /\ ret.val.subtype = "Json"

(***************************************************************************)
(* C9                                                                      *)
(***************************************************************************)
\* the rendering of one argument of json_array
Rendering(v) ==
    CASE v.type = "Text" ->
            (IF v.subtype = "Json" THEN v.value
             ELSE "\"" \o EscapeString(v.value) \o "\"")
      [] v.type = "Integer" -> ToString(v.i)
      [] v.type = "Float" -> FloatText(v.f)
      [] v.type = "Null" -> "null"

\* C9: json_array fails with ConstraintError "JSON cannot hold BLOB values" when
\* any argument is a Blob, and otherwise returns '[' + the renderings of the
\* arguments joined by single commas in argument order + ']'
C9_JsonArrayText ==
    Done("json_array") =>
        LET values == args[1]
        IN  IF \E n \in 1..Len(values) : values[n].type = "Blob"
            THEN ret = ConstraintError("JSON cannot hold BLOB values")
            ELSE ret = Ok(TextJson("[" \o JoinTexts([n \in 1..Len(values) |->
                                                        Rendering(values[n])]) \o "]"))

\* json_array has spliced a tagged text and quoted an untagged one
C9_Witness ==
    /\ Done("json_array")
    /\ Len(args[1]) = 2
    /\ args[1][1] = BuildText("{\"a\":2}")
    /\ args[1][2] = TextJson("[1,2]")
    /\ ret = Ok(TextJson("[\"{\\\"a\\\":2}\",[1,2]]"))

(***************************************************************************)
(* C2                                                                      *)
(***************************************************************************)
\* the element an ArrayLocator i selects in an array: i in [0, n) selects
\* element i, i in [-n, -1] selects element n + i, anything else Null
Selected(array, i) ==
    LET n == Len(array)
    IN  IF 0 <= i /\ i < n THEN array[i + 1]
        ELSE IF 0 - n <= i /\ i < 0 THEN array[n + i + 1]
        ELSE ValNull

\* json_extract is done with one path `$[i]` over a document that is an array
ArrayLocatorCall ==
    /\ Done("json_extract")
    /\ Decodes(args[1])
    /\ Len(args[2]) = 1
    /\ IsPathText(args[2][1])
    /\ DocOf(args[1]).k = "Array"
    /\ Len(StepsOf(args[2][1])) = 1
    /\ StepsOf(args[2][1])[1].e = "ArrayLocator"

\* C2: over an array of length n, ArrayLocator -1 selects element n-1, -n
\* selects element 0, and every i < -n and every i >= n yields Null as a normal
\* result
C2_NegativeIndex ==
    ArrayLocatorCall =>
        ret = ExtractOne(Selected(DocOf(args[1]).items, StepsOf(args[2][1])[1].idx))

\* the same for the locators from -n upwards, which is what the code does
C2_FromMinusLength ==
    (ArrayLocatorCall /\ StepsOf(args[2][1])[1].idx >= 0 - Len(DocOf(args[1]).items))
        => ret = ExtractOne(Selected(DocOf(args[1]).items, StepsOf(args[2][1])[1].idx))

\* below -n the call panics
C2_BelowMinusLength ==
    (ArrayLocatorCall /\ StepsOf(args[2][1])[1].idx < 0 - Len(DocOf(args[1]).items))
        => IsPanic(ret)

(***************************************************************************)
(* C6                                                                      *)
(***************************************************************************)
\* json_extract is done with exactly one valid path over a decodable subject
SinglePathCall ==
    /\ Done("json_extract")
    /\ DecodableSubject(args[1])
    /\ Len(args[2]) = 1
    /\ IsPathText(args[2][1])

\* C6: json_extract with exactly one path returns native Null when the path
\* addresses a JSON null or misses (absent key, out-of-range index, wrong
\* container), and otherwise the encoding of the matched value tagged Json
C6_SinglePath ==
    SinglePathCall => ret = ExtractOne(Evaluate(DocOf(args[1]), StepsOf(args[2][1])))

\* the same for the paths that meet no locator below minus the array's length
C6_WithoutOverrun ==
    (SinglePathCall /\ ~Overruns(DocOf(args[1]), StepsOf(args[2][1])))
        => ret = ExtractOne(Evaluate(DocOf(args[1]), StepsOf(args[2][1])))

(***************************************************************************)
(* C7                                                                      *)
(***************************************************************************)
\* json_extract is done with more than one path, all valid, over a decodable
\* subject
MultiPathCall ==
    /\ Done("json_extract")
    /\ DecodableSubject(args[1])
    /\ Len(args[2]) > 1
    /\ \A n \in 1..Len(args[2]) : IsPathText(args[2][n])

\* the array literal of the per-path results, in path order
MultiPathText(doc, paths) ==
    "[" \o JoinTexts([n \in 1..Len(paths) |->
                         to_string(Evaluate(doc, StepsOf(paths[n])))]) \o "]"

\* C7: json_extract with k > 1 valid paths returns a Json-tagged array literal
\* of exactly k entries, entry j the encoding of the result of path j, a miss
\* being the literal null at its own position
C7_MultiPath ==
    MultiPathCall => ret = Ok(TextJson(MultiPathText(DocOf(args[1]), args[2])))

\* the same when no path meets a locator below minus the array's length
C7_WithoutOverrun ==
    (/\ MultiPathCall
     /\ \A n \in 1..Len(args[2]) : ~Overruns(DocOf(args[1]), StepsOf(args[2][n])))
        => ret = Ok(TextJson(MultiPathText(DocOf(args[1]), args[2])))

(***************************************************************************)
(* C8                                                                      *)
(***************************************************************************)
\* a call that evaluates a valid path over a decoded document: json_extract
\* with one path, or json_array_length with a Text path
EvaluatingCall ==
    \/ SinglePathCall
    \/ /\ Done("json_array_length")
       /\ DecodableSubject(args[1])
       /\ IsPathText(args[2])

ThePath == IF fn = "json_extract" THEN args[2][1] ELSE args[2]

\* C8: evaluating a syntactically valid path never fails; a Key on a value
\* that is no Object or lacks the key, and an ArrayLocator on a value that is
\* no Array, make the result Null whatever steps follow; a locator is
\* normalized by the length of the array it is applied to
C8_EvaluationNeverFails ==
    EvaluatingCall =>
        json_extract_single(DocOf(args[1]), ThePath.value)
            = Ok(Evaluate(DocOf(args[1]), StepsOf(ThePath)))

\* the same for the paths that meet no locator below minus the array's length
C8_WithoutOverrun ==
    (EvaluatingCall /\ ~Overruns(DocOf(args[1]), StepsOf(ThePath)))
        => json_extract_single(DocOf(args[1]), ThePath.value)
               = Ok(Evaluate(DocOf(args[1]), StepsOf(ThePath)))

(***************************************************************************)
(* C10                                                                     *)
(***************************************************************************)
\* json_array_length is done over a decodable subject
LengthCall == Done("json_array_length") /\ DecodableSubject(args[1])

\* C10: an absent or Null path selects the whole document, a Text, Integer or
\* Float path is stringified and evaluated, and the selected value gives the
\* element count for an Array, native Null for Null (a path miss included) and
\* Integer 0 for anything else
C10_ArrayLength ==
    LengthCall =>
        /\ args[2].type \in {"None", "Null"} => ret = Classify(DocOf(args[1]))
        /\ IsPathText(args[2])
              => ret = Classify(Evaluate(DocOf(args[1]), StepsOf(args[2])))
        /\ (args[2].type \in {"Integer", "Float"} \/ IsMalformedPath(args[2]))
              => IsParseError(ret)

\* the same for the paths that meet no locator below minus the array's length
C10_WithoutOverrun ==
    LengthCall =>
        /\ args[2].type \in {"None", "Null"} => ret = Classify(DocOf(args[1]))
        /\ (IsPathText(args[2]) /\ ~Overruns(DocOf(args[1]), StepsOf(args[2])))
              => ret = Classify(Evaluate(DocOf(args[1]), StepsOf(args[2])))
        /\ (args[2].type \in {"Integer", "Float"} \/ IsMalformedPath(args[2]))
              => IsParseError(ret)

(***************************************************************************)
(* C3                                                                      *)
(***************************************************************************)
\* the path argument of json_array_length is a string that does not parse
UnparsablePathArg(p) == IsMalformedPath(p) \/ p.type \in {"Integer", "Float"}

\* C3 as stated: whenever get_json, json_array_length or json_extract is given
\* a subject text that does not decode, or a path string that does not parse,
\* the call returns a ParseError, whatever the other arguments are (an empty
\* path list, a Null subject, a Null path elsewhere in the list).  Text tagged
\* Json given to get_json is C1's case and a Blob subject is the unimplemented
\* conversion, so neither is counted against the statement here.
C3_AlwaysParseError ==
    /\ (Done("get_json") /\ Undecodable(args[1]) /\ args[1].subtype # "Json")
          => IsParseError(ret)
    /\ (Done("json_array_length")
            /\ args[1].type # "Blob"
            /\ (Undecodable(args[1]) \/ UnparsablePathArg(args[2])))
          => IsParseError(ret)
    /\ (Done("json_extract")
            /\ args[1].type # "Blob"
            /\ (Undecodable(args[1])
                  \/ \E n \in 1..Len(args[2]) : IsMalformedPath(args[2][n])))
          => IsParseError(ret)

\* an element of the path list before position n meets a locator below minus
\* the length of its array
EarlierOverrun(doc, paths, n) ==
    \E m \in 1..(n - 1) : Overruns(doc, StepsOf(paths[m]))

\* C3 as amended: get_json returns a ParseError for undecodable text that is
\* not tagged Json; json_array_length for an undecodable subject text, and for
\* an unparsable path over a subject that is Null, a number or decodable text;
\* json_extract for an undecodable subject text when the path list is not
\* empty, and for a malformed path string when the subject is a number or
\* decodable text and every earlier element of the list is a Text that parses
\* as a path (if one of those meets a locator below minus the length of its
\* array the call panics before it reaches the malformed path)
C3_ParseErrorWhenReached ==
    /\ (Done("get_json") /\ Undecodable(args[1]) /\ args[1].subtype # "Json")
          => ret = ParseError("malformed JSON")
    /\ (Done("json_array_length") /\ Undecodable(args[1]))
          => ret = ParseError("malformed JSON")
    /\ (Done("json_array_length")
            /\ (DecodableSubject(args[1]) \/ args[1].type = "Null")
            /\ UnparsablePathArg(args[2]))
          => IsParseError(ret)
    /\ (Done("json_extract") /\ Undecodable(args[1]) /\ args[2] # <<>>)
          => ret = ParseError("malformed JSON")
    /\ (Done("json_extract") /\ DecodableSubject(args[1]))
          => \A n \in 1..Len(args[2]) :
                (/\ IsMalformedPath(args[2][n])
                 /\ \A m \in 1..(n - 1) : IsPathText(args[2][m]))
                  => IF EarlierOverrun(DocOf(args[1]), args[2], n)
                     THEN IsPanic(ret)
                     ELSE IsParseError(ret)

\* json_extract has returned a ParseError for a malformed path that follows a
\* valid one
C3_Witness ==
    /\ Done("json_extract")
    /\ Decodes(args[1])
    /\ Len(args[2]) = 2
    /\ IsPathText(args[2][1])
    /\ IsMalformedPath(args[2][2])
    /\ IsParseError(ret)

(***************************************************************************)
(* C4                                                                      *)
(***************************************************************************)
\* json_extract is done over a decodable subject with a native Null among
\* the paths
NullPathCall ==
    /\ Done("json_extract")
    /\ DecodableSubject(args[1])
    /\ \E n \in 1..Len(args[2]) : args[2][n].type = "Null"

\* C4 as stated: a native Null anywhere in the path list makes json_extract
\* return native Null, whatever the other path arguments are
C4_NullPathAnywhere == NullPathCall => ret = Ok(OwnedNull)

\* C4 as amended: json_extract returns native Null when every element of the
\* path list before its first native Null is a Text that parses as a path,
\* whatever follows the Null (if one of the earlier paths meets a locator below
\* minus the length of its array the call panics before it reaches the Null)
C4_NullPathWhenReached ==
    NullPathCall =>
        \A n \in 1..Len(args[2]) :
            (/\ args[2][n].type = "Null"
             /\ \A m \in 1..(n - 1) : IsPathText(args[2][m]))
              => IF EarlierOverrun(DocOf(args[1]), args[2], n)
                 THEN IsPanic(ret)
                 ELSE ret = Ok(OwnedNull)

\* json_extract has returned Null for a Null path that follows a valid path
\* which matched
C4_Witness ==
    /\ Done("json_extract")
    /\ Decodes(args[1])
    /\ Len(args[2]) = 2
    /\ IsPathText(args[2][1])
    /\ Evaluate(DocOf(args[1]), StepsOf(args[2][1])) # ValNull
    /\ args[2][2].type = "Null"
    /\ ret = Ok(OwnedNull)

====
